---- MODULE Spec2Model ----
(***************************************************************************)
(* Provider factories (kubrick_mcp.providers.factory.AIProviderFactory and *)
(* kubrick_api.providers.factory.AgentProviderFactory), the providers'     *)
(* initialize()/is_available(), and the AWS Transcribe job poller.         *)
(*                                                                         *)
(* A behaviour of Spec follows the cache slot of ONE capability of one     *)
(* factory (cap, chosen with the settings in Init): every getter reads and *)
(* writes only the slot of its own capability.  Callers are threads: the   *)
(* ingestion wrappers run each coroutine with asyncio.run on a worker      *)
(* thread (_run_async) against a module-level factory, so the statements   *)
(* of a getter interleave between callers.                                 *)
(***************************************************************************)
EXTENDS Integers, Sequences, FiniteSets, TLC

\* ---------------------------------------------------------------- bounds
\* number of concurrent callers (threads) of one factory
NumCallers == 2
\* total number of getter calls started in one behaviour
MaxCalls == 2

Callers == 1..NumCallers

\* the empty cache slot (self._vision_provider = None)
None == 0

\* ------------------------------------------------------------- settings
Caps == {"vision", "embeddings", "transcription", "chat"}

\* values of VISION_PROVIDER / EMBEDDINGS_PROVIDER / TRANSCRIPTION_PROVIDER /
\* AGENT_PROVIDER that the settings may hold
Selectors == {"bedrock", "BEDROCK", "openai", "OpenAI", "groq"}

\* str.lower()
Lower(s) ==
    CASE s = "BEDROCK" -> "bedrock"
      [] s = "OpenAI" -> "openai"
      [] OTHER -> s

\* the values of the two ProviderType enums
ProviderType(c) ==
    IF c = "chat" THEN {"groq", "bedrock"} ELSE {"openai", "bedrock"}

OpenAIVariants == {"OpenAIVision", "OpenAIEmbeddings", "OpenAITranscription"}

Variants ==
    OpenAIVariants \cup
    {"BedrockVision", "BedrockEmbeddings", "AWSTranscribe", "BedrockChat", "GroqChat"}

\* variants whose initialize() talks to a backend and can raise
Fallible == Variants \ OpenAIVariants

CapVariants(c) ==
    CASE c = "vision" -> {"BedrockVision", "OpenAIVision"}
      [] c = "embeddings" -> {"BedrockEmbeddings", "OpenAIEmbeddings"}
      [] c = "transcription" -> {"OpenAITranscription", "AWSTranscribe"}
      [] c = "chat" -> {"BedrockChat", "GroqChat"}

VARIABLES
    cap,        \* the capability whose getters this behaviour follows
    selector,   \* settings.<CAP>_PROVIDER
    openaiKey,  \* bool(settings.OPENAI_API_KEY)   (kubrick_mcp settings)
    groqKey,    \* bool(settings.GROQ_API_KEY)     (kubrick_api settings)
    up,         \* up[v]: the backend of variant v would let initialize() succeed now
    inst,       \* the provider objects constructed so far, by identity 1..Len(inst)
    slot,       \* the factory's cache slot of cap (self._<cap>_provider)
    call,       \* call[c]: the getter call caller c is in (position and locals)
    last,       \* the getter call that ended last, and how it ended
    ncalls,     \* getter calls started
    substituted, \* primaries for which a with-fallback getter returned the secondary
    tpc,        \* position of the transcribe_audio call
    now,        \* time.time() - start_time, in seconds
    slept,      \* seconds the current asyncio.sleep has lasted
    job,        \* the status AWS Transcribe holds for the job
    status,     \* the local `status` of _wait_for_transcription_job
    completed,  \* whether the job reached COMPLETED, and on which side of the deadline
    issued,     \* the external calls transcribe_audio has issued
    faults,     \* the external calls that raised
    result,     \* how transcribe_audio ended
    error,      \* the exception transcribe_audio raised: its class and message
    reason,     \* the FailureReason AWS Transcribe reports for the job
    count,      \* how often transcribe_audio uploaded the payload, started a job,
                \* queried its status
    speech_clips,    \* result of search_engine.search_by_speech
    caption_clips,   \* result of search_engine.search_by_caption
    rpc,             \* position of get_video_clip_from_user_query
    video_clip_info, \* the clip the comparison selected
    extracted,       \* the arguments extract_video_clip was called with
    rresult,         \* how get_video_clip_from_user_query ended
    wfn,        \* the ingestion wrapper that is called
    winput,     \* the kind of object passed as audio_data / image_data / text
    wpc,        \* position of the wrapper call
    wglobals,   \* aws_patch: _providers_initialized and the three _<cap>_provider
    wprovider,  \* the provider the wrapper call works with
    wexc,       \* the exception raised inside the wrapper's try block
    wcaught,    \* the exception the wrapper's except clause caught
    wret,       \* what the wrapper call gave its caller
    wcalls,     \* wrapper calls made
    processor,  \* AWSVideoProcessor: its three _<cap>_provider fields
    vcall,      \* the _get_providers calls made, and how the last one ended
    memory,         \* the records self.memory.get_latest(n) returns
    image_base64,   \* the image_base64 argument of _build_chat_history
    history,        \* the list _build_chat_history returns
    claude_messages, \* the list _convert_messages_to_claude_format returns
    cpc             \* position of the chat turn

settingsVars == <<cap, selector, openaiKey, groqKey>>

factoryVars == <<settingsVars, up, inst, slot, call, last, ncalls, substituted>>

pollVars ==
    <<tpc, now, slept, job, status, completed, issued, faults, result, error, reason, count>>

rankVars == <<speech_clips, caption_clips, rpc, video_clip_info, extracted, rresult>>

wrapVars ==
    <<wfn, winput, wpc, wglobals, wprovider, wexc, wcaught, wret, wcalls, processor, vcall>>

convVars == <<memory, image_base64, history, claude_messages, cpc>>

vars == <<factoryVars, pollVars, rankVars, wrapVars, convVars>>

\* ------------------------------------------------------------ providers
\* __init__ of every provider class: no client, not initialized.
\* inits counts the initialize() calls on the instance; failed: the latest of
\* them raised
NewProvider(v, r) ==
    [variant |-> v, client |-> FALSE, s3_client |-> FALSE, bucket |-> FALSE,
     initialized |-> FALSE, role |-> r, inits |-> 0, failed |-> FALSE]

\* is_available() of each provider class
IsAvailable(p) ==
    CASE p.variant \in OpenAIVariants -> p.initialized
      [] p.variant = "AWSTranscribe" ->
            p.client /\ p.s3_client /\ p.initialized /\ p.bucket
      [] OTHER -> p.client /\ p.initialized

\* GroqChatProvider.initialize builds Groq(api_key=...): no key, no client
CredentialOk(v) == IF v = "GroqChat" THEN groqKey ELSE TRUE

\* whether initialize() of a fresh provider of variant v succeeds when the
\* backends are as in u
Usable(v, u) == v \in OpenAIVariants \/ (u[v] /\ CredentialOk(v))

\* initialize(): the set of (provider after the call, raised) outcomes.
\* The OpenAI providers only set _initialized.  The others build their clients
\* first; on an exception the fields assigned before it keep their values.
Initialize(p) ==
    LET q == [p EXCEPT !.inits = @ + 1, !.failed = FALSE]
        f == [p EXCEPT !.inits = @ + 1, !.failed = TRUE]
        ok == [q EXCEPT !.client = TRUE, !.initialized = TRUE]
    IN  IF p.variant \in OpenAIVariants
        THEN {[after |-> [q EXCEPT !.initialized = TRUE], raised |-> FALSE]}
        ELSE IF Usable(p.variant, up)
        THEN IF p.variant = "AWSTranscribe"
             THEN {[after |-> [ok EXCEPT !.s3_client = TRUE, !.bucket = TRUE],
                    raised |-> FALSE]}
             ELSE {[after |-> ok, raised |-> FALSE]}
        ELSE {[after |-> f, raised |-> TRUE]} \cup
             (IF p.variant = "BedrockVision"
              THEN {[after |-> [f EXCEPT !.client = TRUE], raised |-> TRUE]}
              ELSE {}) \cup
             (IF p.variant = "AWSTranscribe"
              THEN {[after |-> [f EXCEPT !.client = TRUE], raised |-> TRUE],
                    [after |-> [f EXCEPT !.client = TRUE, !.s3_client = TRUE],
                     raised |-> TRUE]}
              ELSE {})

\* -------------------------------------------------------------- factory
\* ProviderType(settings.X_PROVIDER.lower()) raises ValueError for a value that
\* is no member of the enum; get_transcription_provider reads no selector
SelectorValid == cap = "transcription" \/ Lower(selector) \in ProviderType(cap)

\* mutant of PrimaryVariant: the selector is compared as it is written
PrimaryVariantCaseSensitive ==
    CASE cap = "vision" ->
            IF selector = "bedrock" THEN "BedrockVision" ELSE "OpenAIVision"
      [] cap = "embeddings" ->
            IF selector = "bedrock" THEN "BedrockEmbeddings" ELSE "OpenAIEmbeddings"
      [] cap = "transcription" ->
            IF openaiKey THEN "OpenAITranscription" ELSE "AWSTranscribe"
      [] cap = "chat" ->
            IF selector = "bedrock" THEN "BedrockChat" ELSE "GroqChat"

\* the variant the plain getter constructs
PrimaryVariant ==
    CASE cap = "vision" ->
            IF Lower(selector) = "bedrock" THEN "BedrockVision" ELSE "OpenAIVision"
      [] cap = "embeddings" ->
            IF Lower(selector) = "bedrock" THEN "BedrockEmbeddings" ELSE "OpenAIEmbeddings"
      [] cap = "transcription" ->
            IF openaiKey THEN "OpenAITranscription" ELSE "AWSTranscribe"
      [] cap = "chat" ->
            IF Lower(selector) = "bedrock" THEN "BedrockChat" ELSE "GroqChat"

\* the variant the with-fallback getter constructs after the primary failed
SecondaryVariant ==
    CASE cap = "vision" -> "OpenAIVision"
      [] cap = "embeddings" -> "OpenAIEmbeddings"
      [] cap = "transcription" ->
            IF openaiKey THEN "AWSTranscribe" ELSE "OpenAITranscription"
      [] cap = "chat" -> "GroqChat"

\* whether the with-fallback getter attempts the secondary at all: only
\* get_chat_provider_with_fallback tests the credential first
SecondaryAttempted == IF cap = "chat" THEN groqKey ELSE TRUE

\* the primary (secondary) could be constructed, initialized and would report
\* available with the backends as in u
PrimaryOk(u) == SelectorValid /\ Usable(PrimaryVariant, u)
SecondaryOk(u) == SecondaryAttempted /\ Usable(SecondaryVariant, u)

\* no call: the locals of a getter call before its first statement.
\* attempted: the primary this call initialized or found unavailable;
\* since: the primaries already substituted when a plain call started;
\* upPrim, upSec: the primary (secondary) was usable all through a
\* with-fallback call
Idle ==
    [pc |-> "idle", kind |-> "none", attempted |-> None, provider |-> None,
     prim |-> "none", sec |-> "none", outcome |-> "none", ret |-> None,
     err |-> "none", since |-> {}, upPrim |-> FALSE, upSec |-> FALSE]

\* no exception
NoError == [type |-> "none", message |-> <<>>]

\* no transcribe_audio call is running
NoTranscription ==
    /\ tpc = "idle"
    /\ now = 0
    /\ slept = 0
    /\ job = "NONE"
    /\ status = "none"
    /\ completed = "no"
    /\ issued = {}
    /\ faults = {}
    /\ result = "none"
    /\ error = NoError
    /\ reason = "none"
    /\ count = [put_object |-> 0, start_transcription_job |-> 0, get_transcription_job |-> 0]

\* no clip selected
NoClip == [similarity |-> 0, start_time |-> 0, end_time |-> 0, channel |-> "none"]

\* extract_video_clip not called
NoExtract == [called |-> FALSE, start_time |-> 0, end_time |-> 0]

\* no get_video_clip_from_user_query call is running
NoRanking ==
    /\ speech_clips = <<>>
    /\ caption_clips = <<>>
    /\ rpc = "idle"
    /\ video_clip_info = NoClip
    /\ extracted = NoExtract
    /\ rresult = "none"

\* what a wrapper call has given its caller before it ended: nothing
NoReturn == [kind |-> "none", empty |-> FALSE]

\* the module globals of aws_patch after import
NoProviders ==
    [initialized |-> FALSE, transcription |-> "None", vision |-> "None",
     embeddings |-> "None"]

\* AWSVideoProcessor.__init__: the three provider fields are None
NoProcessorProviders ==
    [transcription |-> "None", vision |-> "None", embeddings |-> "None"]

\* no ingestion wrapper is called
NoWrapping ==
    /\ wfn = "none"
    /\ winput = "none"
    /\ wpc = "idle"
    /\ wglobals = NoProviders
    /\ wprovider = "None"
    /\ wexc = "none"
    /\ wcaught = "none"
    /\ wret = NoReturn
    /\ wcalls = 0
    /\ processor = NoProcessorProviders
    /\ vcall = [n |-> 0, outcome |-> "none"]

\* no chat turn is running
NoConversion ==
    /\ memory = <<>>
    /\ image_base64 = ""
    /\ history = <<>>
    /\ claude_messages = <<>>
    /\ cpc = "idle"

\* no getter call, no provider
NoFactory ==
    /\ cap = "vision"
    /\ selector = "bedrock"
    /\ openaiKey = FALSE
    /\ groqKey = FALSE
    /\ up = [v \in Variants |-> TRUE]
    /\ inst = <<>>
    /\ slot = None
    /\ call = [c \in Callers |-> Idle]
    /\ last = Idle
    /\ ncalls = 0
    /\ substituted = {}

Init ==
    /\ cap \in Caps
    /\ selector \in (IF cap = "transcription" THEN {"openai", "bedrock"} ELSE Selectors)
    /\ openaiKey \in (IF cap = "chat" THEN {FALSE} ELSE BOOLEAN)
    /\ groqKey \in (IF cap = "chat" THEN BOOLEAN ELSE {FALSE})
    /\ up \in [Variants -> BOOLEAN]
    /\ \A v \in Variants : v \notin (CapVariants(cap) \cap Fallible) => up[v]
    /\ inst = <<>>
    /\ slot = None
    /\ call = [c \in Callers |-> Idle]
    /\ last = Idle
    /\ ncalls = 0
    /\ substituted = {}
    /\ NoTranscription
    /\ NoRanking
    /\ NoWrapping
    /\ NoConversion

\* caller c goes on with its call
Step(c, r) ==
    /\ call' = [call EXCEPT ![c] = r]
    /\ UNCHANGED last

\* the call of caller c ends: it returns provider i
Return(c, r, i) ==
    /\ call' = [call EXCEPT ![c] = Idle]
    /\ last' = [r EXCEPT !.pc = "done", !.outcome = "returned", !.ret = i]

\* the call of caller c ends: error e reaches the caller
Raise(c, r, e) ==
    /\ call' = [call EXCEPT ![c] = Idle]
    /\ last' = [r EXCEPT !.pc = "done", !.outcome = "raised", !.err = e]

\* an exception leaves the plain getter: it reaches the caller of a plain call,
\* and the except clause of a with-fallback call
PlainRaises(c, r, e) ==
    IF r.kind = "plain"
    THEN Raise(c, r, e)
    ELSE Step(c, [r EXCEPT !.pc = "secondary", !.prim = "raised"])

\* the call starts with the plain getter's first statement,
\* if self._<cap>_provider is None:
Begin(k) ==
    [Idle EXCEPT !.pc = IF slot = None THEN "construct" ELSE "return",
                 !.kind = k,
                 !.since = IF k = "plain" THEN substituted ELSE {},
                 !.upPrim = k = "fallback" /\ PrimaryOk(up),
                 !.upSec = k = "fallback" /\ SecondaryOk(up)]

\* callers are interchangeable threads: a new call runs on the first free one
MayStart(c) ==
    /\ call[c].pc = "idle"
    /\ \A d \in Callers : d < c => call[d].pc # "idle"
    /\ ncalls < MaxCalls

\* a caller calls get_<cap>_provider() and tests the cache slot
StartPlain(c) ==
    /\ MayStart(c)
    /\ ncalls' = ncalls + 1
    /\ Step(c, Begin("plain"))
    /\ UNCHANGED <<settingsVars, up, inst, slot, substituted, pollVars, rankVars, wrapVars, convVars>>

\* a caller calls get_<cap>_provider_with_fallback(), which first calls the
\* plain getter inside its try block; the plain getter tests the cache slot
StartFallback(c) ==
    /\ MayStart(c)
    /\ ncalls' = ncalls + 1
    /\ Step(c, Begin("fallback"))
    /\ UNCHANGED <<settingsVars, up, inst, slot, substituted, pollVars, rankVars, wrapVars, convVars>>

\* mutant of GetConstruct: the provider is constructed and stored before the
\* selector is looked at
GetConstructUnvalidated(c) ==
    /\ call[c].pc = "construct"
    /\ inst' = Append(inst, NewProvider(PrimaryVariant, "primary"))
    /\ slot' = Len(inst) + 1
    /\ IF SelectorValid
       THEN Step(c, [call[c] EXCEPT !.pc = "init"])
       ELSE PlainRaises(c, call[c], "selector")
    /\ UNCHANGED <<settingsVars, up, ncalls, substituted, pollVars, rankVars, wrapVars, convVars>>

\* provider_type = ProviderType(...); self._<cap>_provider = <Variant>(...)
GetConstruct(c) ==
    /\ call[c].pc = "construct"
    /\ IF SelectorValid
       THEN /\ inst' = Append(inst, NewProvider(PrimaryVariant, "primary"))
            /\ slot' = Len(inst) + 1
            /\ Step(c, [call[c] EXCEPT !.pc = "init"])
       ELSE /\ PlainRaises(c, call[c], "selector")
            /\ UNCHANGED <<inst, slot>>
    /\ UNCHANGED <<settingsVars, up, ncalls, substituted, pollVars, rankVars, wrapVars, convVars>>

\* await self._<cap>_provider.initialize()
GetInit(c) ==
    /\ call[c].pc = "init"
    /\ \E o \in Initialize(inst[slot]) :
         /\ inst' = [inst EXCEPT ![slot] = o.after]
         /\ IF o.raised
            THEN PlainRaises(c, [call[c] EXCEPT !.attempted = slot], "init")
            ELSE Step(c, [call[c] EXCEPT !.attempted = slot, !.pc = "return"])
    /\ UNCHANGED <<settingsVars, up, slot, ncalls, substituted, pollVars, rankVars, wrapVars, convVars>>

\* return self._<cap>_provider
GetReturn(c) ==
    /\ call[c].pc = "return"
    /\ IF call[c].kind = "plain"
       THEN Return(c, call[c], slot)
       ELSE Step(c, [call[c] EXCEPT !.pc = "fb_check", !.provider = slot])
    /\ UNCHANGED <<settingsVars, up, inst, slot, ncalls, substituted, pollVars, rankVars, wrapVars, convVars>>

\* mutant of FbCheckPrimary: the primary is returned without asking
\* is_available()
FbCheckPrimaryUnchecked(c) ==
    /\ call[c].pc = "fb_check"
    /\ Return(c, [call[c] EXCEPT !.prim = "available"], call[c].provider)
    /\ UNCHANGED <<settingsVars, up, inst, slot, ncalls, substituted, pollVars, rankVars, wrapVars, convVars>>

\* mutant of FbCheckPrimary: the fallback block runs although the primary is
\* available
FbCheckPrimaryAlwaysFallsBack(c) ==
    /\ call[c].pc = "fb_check"
    /\ Step(c, [call[c] EXCEPT !.pc = "secondary",
                               !.prim = IF IsAvailable(inst[call[c].provider])
                                        THEN "available" ELSE "unavailable",
                               !.attempted = call[c].provider])
    /\ UNCHANGED <<settingsVars, up, inst, slot, ncalls, substituted, pollVars, rankVars, wrapVars, convVars>>

\* if provider.is_available(): return provider
FbCheckPrimary(c) ==
    /\ call[c].pc = "fb_check"
    /\ IF IsAvailable(inst[call[c].provider])
       THEN Return(c, [call[c] EXCEPT !.prim = "available"], call[c].provider)
       ELSE Step(c, [call[c] EXCEPT !.pc = "secondary", !.prim = "unavailable",
                                    !.attempted = call[c].provider])
    /\ UNCHANGED <<settingsVars, up, inst, slot, ncalls, substituted, pollVars, rankVars, wrapVars, convVars>>

\* mutant of FbSecondary: the secondary that is returned is also stored in the
\* cache slot
FbSecondaryCached(c) ==
    /\ call[c].pc = "secondary"
    /\ IF ~SecondaryAttempted
       THEN /\ Raise(c, [call[c] EXCEPT !.sec = "skipped"], "all")
            /\ UNCHANGED <<inst, slot, substituted>>
       ELSE \E o \in Initialize(NewProvider(SecondaryVariant, "secondary")) :
              /\ inst' = Append(inst, o.after)
              /\ IF ~o.raised /\ IsAvailable(o.after)
                 THEN /\ Return(c, [call[c] EXCEPT !.sec = "returned"], Len(inst) + 1)
                      /\ slot' = Len(inst) + 1
                      /\ substituted' = substituted \cup ({call[c].attempted} \ {None})
                 ELSE /\ Raise(c, [call[c] EXCEPT !.sec = IF o.raised THEN "raised"
                                                          ELSE "unavailable"], "all")
                      /\ UNCHANGED <<slot, substituted>>
    /\ UNCHANGED <<settingsVars, up, ncalls, pollVars, rankVars, wrapVars, convVars>>

\* the fallback block: construct the secondary, initialize it, return it if it
\* is available; raise ProviderUnavailableError("all", ...) otherwise
FbSecondary(c) ==
    /\ call[c].pc = "secondary"
    /\ IF ~SecondaryAttempted
       THEN /\ Raise(c, [call[c] EXCEPT !.sec = "skipped"], "all")
            /\ UNCHANGED <<inst, substituted>>
       ELSE \E o \in Initialize(NewProvider(SecondaryVariant, "secondary")) :
              /\ inst' = Append(inst, o.after)
              /\ IF ~o.raised /\ IsAvailable(o.after)
                 THEN /\ Return(c, [call[c] EXCEPT !.sec = "returned"], Len(inst) + 1)
                      /\ substituted' = substituted \cup ({call[c].attempted} \ {None})
                 ELSE /\ Raise(c, [call[c] EXCEPT !.sec = IF o.raised THEN "raised"
                                                          ELSE "unavailable"], "all")
                      /\ UNCHANGED substituted
    /\ UNCHANGED <<settingsVars, up, slot, ncalls, pollVars, rankVars, wrapVars, convVars>>

\* a backend goes down or comes back (credentials, network, the S3 bucket).
\* Only initialize() reads the backends, so a change is taken when a caller is
\* about to run one.
EnvChange(v) ==
    /\ v \in CapVariants(cap) \cap Fallible
    /\ \E c \in Callers : call[c].pc \in {"init", "secondary"}
    /\ up' = [up EXCEPT ![v] = ~@]
    /\ call' = [c \in Callers |->
                 IF call[c].kind # "fallback" THEN call[c]
                 ELSE [call[c] EXCEPT !.upPrim = @ /\ PrimaryOk(up'),
                                      !.upSec = @ /\ SecondaryOk(up')]]
    /\ UNCHANGED <<settingsVars, inst, slot, last, ncalls, substituted, pollVars, rankVars, wrapVars, convVars>>

Next ==
    \/ \E c \in Callers : StartPlain(c)
    \/ \E c \in Callers : StartFallback(c)
    \/ \E c \in Callers : GetConstruct(c)
    \/ \E c \in Callers : GetInit(c)
    \/ \E c \in Callers : GetReturn(c)
    \/ \E c \in Callers : FbCheckPrimary(c)
    \/ \E c \in Callers : FbSecondary(c)
    \/ \E v \in Variants : EnvChange(v)

Spec == Init /\ [][Next]_vars

\* ----------------------------------------------------- AWS Transcribe job
\* bound: seconds by which asyncio.sleep may overrun the requested delay
MaxOversleep == 1

\* max_wait_time of _wait_for_transcription_job, in seconds
MaxWaitTime == 300
\* the delay of self._async_sleep(5), in seconds
PollInterval == 5

\* a provider handed out by get_transcription_provider (AWS Transcribe is the
\* primary when no OpenAI key is set), whether or not its initialize()
\* succeeded; transcribe_audio is about to be called on it
InitPoll ==
    /\ cap = "transcription"
    /\ selector = "bedrock"
    /\ openaiKey = FALSE
    /\ groqKey = FALSE
    /\ up \in [Variants -> BOOLEAN]
    /\ \A v \in Variants : v # "AWSTranscribe" => up[v]
    /\ inst \in {<<o.after>> : o \in Initialize(NewProvider("AWSTranscribe", "primary"))}
    /\ slot = 1
    /\ call = [c \in Callers |-> Idle]
    /\ last = Idle
    /\ ncalls = 0
    /\ substituted = {}
    /\ tpc = "entry"
    /\ now = 0
    /\ slept = 0
    /\ job = "NONE"
    /\ status = "none"
    /\ completed = "no"
    /\ issued = {}
    /\ faults = {}
    /\ result = "none"
    /\ error = NoError
    /\ reason = "none"
    /\ count = [put_object |-> 0, start_transcription_job |-> 0, get_transcription_job |-> 0]
    /\ NoRanking
    /\ NoWrapping
    /\ NoConversion

\* job_name = f"kubrick-transcribe-{uuid.uuid4().hex}"
JobName == "kubrick-transcribe-<uuid>"

\* the values of FailureReason in the job description; "absent": no such key
FailureReasons == {"absent", "Unsupported media format"}

\* how a boto3 call ends: it returns, raises botocore's ClientError, or raises
\* another exception (no credentials, no connection)
CallOutcomes == {"ok", "ClientError", "Exception"}

\* the exception class of each provider module
ErrorClass(v) ==
    CASE v \in OpenAIVariants -> "OpenAIError"
      [] v = "AWSTranscribe" -> "AWSTranscribeError"
      [] v = "GroqChat" -> "GroqError"
      [] OTHER -> "BedrockError"

\* ProviderError.__init__: str(e) is f"{provider}: {message}"
Str(m) == <<"aws-transcribe">> \o m

\* the exception that leaves transcribe_audio when it ends with r.  The
\* availability test is outside the try block; a ClientError of put_object or
\* start_transcription_job is caught by `except ClientError`; the
\* AWSTranscribeError raised in _wait_for_transcription_job or
\* _download_transcript is caught by `except Exception` and wrapped with its
\* str()
ErrorOf(r) ==
    LET wrapped(m) ==
            [type |-> "AWSTranscribeError", message |-> <<"Unexpected error">> \o Str(m)]
    IN  CASE r \in {"transcript", "response"} -> NoError
          [] r = "op_error" ->
                [type |-> ErrorClass(inst[slot].variant),
                 message |-> <<"API error", "ClientError">>]
          [] r = "provider_unavailable" ->
                [type |-> "ProviderUnavailableError",
                 message |-> <<"Provider not initialized">>]
          [] r = "api_error" ->
                [type |-> "AWSTranscribeError",
                 message |-> <<"Transcription API error", "ClientError">>]
          [] r = "unexpected_error" ->
                [type |-> "AWSTranscribeError",
                 message |-> <<"Unexpected error", "Exception">>]
          [] r = "status_error" ->
                wrapped(<<"Job status check error", "ClientError">>)
          [] r = "job_failed" ->
                wrapped(<<"Transcription job failed",
                          IF reason = "absent" THEN "Unknown error" ELSE reason>>)
          [] r = "download_error" ->
                wrapped(<<"Transcript download error", "Exception">>)
          [] r = "timeout" ->
                wrapped(<<"Transcription job", JobName, "timed out">>)
          [] r = "cancelled" -> [type |-> "CancelledError", message |-> <<>>]

\* transcribe_audio ends: a TranscriptionResponse ("transcript") or an error
Finish(r) ==
    /\ tpc' = "done"
    /\ result' = r
    /\ error' = ErrorOf(r)

\* mutant of TrCheckAvailable: only the client handle is tested
TrCheckAvailableClientOnly ==
    /\ tpc = "entry"
    /\ IF inst[slot].client
       THEN /\ tpc' = IF inst[slot].variant = "AWSTranscribe" THEN "upload" ELSE "invoke"
            /\ UNCHANGED <<result, error>>
       ELSE Finish("provider_unavailable")
    /\ UNCHANGED <<factoryVars, rankVars, now, slept, job, status, completed, issued, faults, reason, count, wrapVars, convVars>>

\* the first statement of every capability operation,
\* if not self.is_available(): raise ProviderUnavailableError;
\* transcribe_audio of AWSTranscribeProvider goes on with the upload, the other
\* operations with their one backend call
TrCheckAvailable ==
    /\ tpc = "entry"
    /\ IF IsAvailable(inst[slot])
       THEN /\ tpc' = IF inst[slot].variant = "AWSTranscribe" THEN "upload" ELSE "invoke"
            /\ UNCHANGED <<result, error>>
       ELSE Finish("provider_unavailable")
    /\ UNCHANGED <<factoryVars, rankVars, now, slept, job, status, completed, issued, faults, reason, count, wrapVars, convVars>>

\* mutant of TrUpload: the job is started although the upload failed
TrUploadFailureIgnored ==
    /\ tpc = "upload"
    /\ issued' = issued \cup {"put_object"}
    /\ count' = [count EXCEPT !.put_object = @ + 1]
    /\ \E o \in CallOutcomes :
         /\ tpc' = "start_job"
         /\ faults' = IF o = "ok" THEN faults ELSE faults \cup {"put_object"}
         /\ UNCHANGED <<result, error>>
    /\ UNCHANGED <<factoryVars, rankVars, now, slept, job, status, completed, reason, wrapVars, convVars>>

\* self.s3_client.put_object(...); a ClientError becomes "Transcription API
\* error", any other exception "Unexpected error"
TrUpload ==
    /\ tpc = "upload"
    /\ issued' = issued \cup {"put_object"}
    /\ count' = [count EXCEPT !.put_object = @ + 1]
    /\ \E o \in CallOutcomes :
         IF o = "ok"
         THEN tpc' = "start_job" /\ UNCHANGED <<result, error, faults>>
         ELSE /\ Finish(IF o = "ClientError" THEN "api_error" ELSE "unexpected_error")
              /\ faults' = faults \cup {"put_object"}
    /\ UNCHANGED <<factoryVars, rankVars, now, slept, job, status, completed, reason, wrapVars, convVars>>

\* self.transcribe_client.start_transcription_job(...), then
\* _wait_for_transcription_job takes start_time = time.time()
TrStartJob ==
    /\ tpc = "start_job"
    /\ issued' = issued \cup {"start_transcription_job"}
    /\ count' = [count EXCEPT !.start_transcription_job = @ + 1]
    /\ \E o \in CallOutcomes :
         IF o = "ok"
         THEN /\ tpc' = "loop"
              /\ job' = "QUEUED"
              /\ now' = 0
              /\ UNCHANGED <<result, error, faults>>
         ELSE /\ Finish(IF o = "ClientError" THEN "api_error" ELSE "unexpected_error")
              /\ faults' = faults \cup {"start_transcription_job"}
              /\ UNCHANGED <<job, now>>
    /\ UNCHANGED <<factoryVars, rankVars, slept, status, completed, reason, wrapVars, convVars>>

\* mutant of WaitQuery: a FAILED job is started again
WaitQueryResubmits ==
    /\ tpc = "loop"
    /\ now < MaxWaitTime
    /\ issued' = issued \cup {"get_transcription_job"}
    /\ count' = [count EXCEPT !.get_transcription_job = @ + 1]
    /\ \E o \in CallOutcomes :
         IF o = "ok"
         THEN /\ status' = job
              /\ UNCHANGED faults
              /\ CASE job = "COMPLETED" -> tpc' = "download" /\ UNCHANGED <<result, error, slept>>
                   [] job = "FAILED" -> tpc' = "start_job" /\ UNCHANGED <<result, error, slept>>
                   [] OTHER -> tpc' = "sleep" /\ slept' = 0 /\ UNCHANGED <<result, error>>
         ELSE /\ Finish(IF o = "ClientError" THEN "status_error" ELSE "unexpected_error")
              /\ faults' = faults \cup {"get_transcription_job"}
              /\ UNCHANGED <<status, slept>>
    /\ UNCHANGED <<factoryVars, rankVars, now, job, completed, reason, wrapVars, convVars>>

\* while time.time() - start_time < max_wait_time: get_transcription_job and
\* the branch on its status; a ClientError becomes "Job status check error",
\* any other exception passes to the handler of transcribe_audio
WaitQuery ==
    /\ tpc = "loop"
    /\ now < MaxWaitTime
    /\ issued' = issued \cup {"get_transcription_job"}
    /\ count' = [count EXCEPT !.get_transcription_job = @ + 1]
    /\ \E o \in CallOutcomes :
         IF o = "ok"
         THEN /\ status' = job
              /\ UNCHANGED faults
              /\ CASE job = "COMPLETED" -> tpc' = "download" /\ UNCHANGED <<result, error, slept>>
                   [] job = "FAILED" -> Finish("job_failed") /\ UNCHANGED slept
                   [] OTHER -> tpc' = "sleep" /\ slept' = 0 /\ UNCHANGED <<result, error>>
         ELSE /\ Finish(IF o = "ClientError" THEN "status_error" ELSE "unexpected_error")
              /\ faults' = faults \cup {"get_transcription_job"}
              /\ UNCHANGED <<status, slept>>
    /\ UNCHANGED <<factoryVars, rankVars, now, job, completed, reason, wrapVars, convVars>>

\* mutant of WaitTimeout: the job and the payload are deleted on a timeout
WaitTimeoutCleansUp ==
    /\ tpc = "loop"
    /\ ~(now < MaxWaitTime)
    /\ Finish("timeout")
    /\ issued' = issued \cup {"delete_transcription_job", "delete_object"}
    /\ UNCHANGED <<factoryVars, rankVars, now, slept, job, status, completed, faults, reason, count, wrapVars, convVars>>

\* the loop condition is false: raise "... timed out after 300 seconds"
WaitTimeout ==
    /\ tpc = "loop"
    /\ ~(now < MaxWaitTime)
    /\ Finish("timeout")
    /\ UNCHANGED <<factoryVars, rankVars, now, slept, job, status, completed, issued, faults, reason, count, wrapVars, convVars>>

\* transcript_text = await self._download_transcript(transcript_uri): fetch
\* and parse; any exception becomes "Transcript download error"
WaitDownload ==
    /\ tpc = "download"
    /\ issued' = issued \cup {"download_transcript"}
    /\ \E ok \in BOOLEAN :
         IF ok
         THEN tpc' = "delete_job" /\ UNCHANGED <<result, error, faults>>
         ELSE Finish("download_error") /\ faults' = faults \cup {"download_transcript"}
    /\ UNCHANGED <<factoryVars, rankVars, now, slept, job, status, completed, reason, count, wrapVars, convVars>>

\* mutant of WaitDeleteJob: the job is left in the service
WaitDeleteJobSkipped ==
    /\ tpc = "delete_job"
    /\ tpc' = "delete_object"
    /\ UNCHANGED <<factoryVars, rankVars, now, slept, job, status, completed, issued, faults, result, error, reason, count, wrapVars, convVars>>

\* delete_transcription_job inside try/except: a failure is logged, and
\* _wait_for_transcription_job returns the transcript
WaitDeleteJob ==
    /\ tpc = "delete_job"
    /\ issued' = issued \cup {"delete_transcription_job"}
    /\ \E ok \in BOOLEAN :
         IF ok
         THEN job' = "DELETED" /\ UNCHANGED faults
         ELSE faults' = faults \cup {"delete_transcription_job"} /\ UNCHANGED job
    /\ tpc' = "delete_object"
    /\ UNCHANGED <<factoryVars, rankVars, now, slept, status, completed, result, error, reason, count, wrapVars, convVars>>

\* mutant of TrDeleteObject: a failed delete of the payload fails the call
TrDeleteObjectRaises ==
    /\ tpc = "delete_object"
    /\ issued' = issued \cup {"delete_object"}
    /\ \E ok \in BOOLEAN :
         IF ok
         THEN Finish("transcript") /\ UNCHANGED faults
         ELSE Finish("unexpected_error") /\ faults' = faults \cup {"delete_object"}
    /\ UNCHANGED <<factoryVars, rankVars, now, slept, job, status, completed, reason, count, wrapVars, convVars>>

\* self.s3_client.delete_object inside try/except, then
\* return TranscriptionResponse(text=transcript_text, ...)
TrDeleteObject ==
    /\ tpc = "delete_object"
    /\ issued' = issued \cup {"delete_object"}
    /\ \E ok \in BOOLEAN :
         faults' = IF ok THEN faults ELSE faults \cup {"delete_object"}
    /\ Finish("transcript")
    /\ UNCHANGED <<factoryVars, rankVars, now, slept, job, status, completed, reason, count, wrapVars, convVars>>

\* a second passes while the poller is in await self._async_sleep(5)
Tick ==
    /\ tpc = "sleep"
    /\ slept < PollInterval + MaxOversleep
    /\ now' = now + 1
    /\ slept' = slept + 1
    /\ UNCHANGED <<factoryVars, rankVars, tpc, job, status, completed, issued, faults, result, error, reason, count, wrapVars, convVars>>

\* mutant of Wake: the sleep may return at once
WakeEarly ==
    /\ tpc = "sleep"
    /\ tpc' = "loop"
    /\ UNCHANGED <<factoryVars, rankVars, now, slept, job, status, completed, issued, faults, result, error, reason, count, wrapVars, convVars>>

\* asyncio.sleep(5) returns, not before 5 seconds have passed
Wake ==
    /\ tpc = "sleep"
    /\ slept >= PollInterval
    /\ tpc' = "loop"
    /\ UNCHANGED <<factoryVars, rankVars, now, slept, job, status, completed, issued, faults, result, error, reason, count, wrapVars, convVars>>

\* mutant of Cancel: the cancellation is swallowed and the loop goes on
CancelSwallowed ==
    /\ tpc = "sleep"
    /\ tpc' = "loop"
    /\ result' = "cancelled"
    /\ error' = ErrorOf("cancelled")
    /\ UNCHANGED <<factoryVars, rankVars, now, slept, job, status, completed, issued, faults, reason, count, wrapVars, convVars>>

\* the caller cancels the task (or its asyncio.wait_for times out) while the
\* call is suspended in asyncio.sleep: CancelledError is raised at the await;
\* it is no ClientError and no Exception, so no handler of
\* _wait_for_transcription_job or transcribe_audio catches it
Cancel ==
    /\ tpc = "sleep"
    /\ Finish("cancelled")
    /\ UNCHANGED <<factoryVars, rankVars, now, slept, job, status, completed, issued, faults, reason, count, wrapVars, convVars>>

\* AWS Transcribe works on the job while transcribe_audio runs
JobProgress ==
    /\ tpc \notin {"idle", "done"}
    /\ \/ /\ job = "QUEUED"
          /\ job' = "IN_PROGRESS"
          /\ UNCHANGED <<completed, reason>>
       \/ /\ job \in {"QUEUED", "IN_PROGRESS"}
          /\ job' = "FAILED"
          /\ reason' \in FailureReasons
          /\ UNCHANGED completed
       \/ /\ job = "IN_PROGRESS"
          /\ job' = "COMPLETED"
          /\ completed' = IF now < MaxWaitTime THEN "in_time" ELSE "late"
          /\ UNCHANGED reason
    /\ UNCHANGED <<factoryVars, rankVars, tpc, now, slept, status, issued, faults, result, error, count, wrapVars, convVars>>

NextPoll ==
    \/ TrCheckAvailable
    \/ TrUpload
    \/ TrStartJob
    \/ WaitQuery
    \/ WaitTimeout
    \/ WaitDownload
    \/ WaitDeleteJob
    \/ TrDeleteObject
    \/ Tick
    \/ Wake
    \/ Cancel
    \/ JobProgress

SpecPoll == InitPoll /\ [][NextPoll]_vars


\* ------------------------------------------------- capability operations
\* the backend call of generate_caption, generate_embeddings, chat_completion
OutboundCall(v) ==
    CASE v = "BedrockVision" -> "converse"
      [] v = "BedrockEmbeddings" -> "invoke_model"
      [] v = "BedrockChat" -> "converse"
      [] v = "GroqChat" -> "chat.completions.create"

\* a provider of any variant, as constructed or after one initialize(); its
\* capability operation is about to be called
InitOp ==
    /\ cap \in Caps
    /\ selector \in (IF cap = "transcription" THEN {"openai", "bedrock"} ELSE Selectors)
    /\ SelectorValid
    /\ openaiKey \in (IF cap = "chat" THEN {FALSE} ELSE BOOLEAN)
    /\ groqKey \in (IF cap = "chat" THEN BOOLEAN ELSE {FALSE})
    /\ up \in [Variants -> BOOLEAN]
    /\ \A v \in Variants : v \notin (CapVariants(cap) \cap Fallible) => up[v]
    /\ inst \in {<<NewProvider(PrimaryVariant, "primary")>>} \cup
                {<<o.after>> : o \in Initialize(NewProvider(PrimaryVariant, "primary"))}
    /\ slot = 1
    /\ call = [c \in Callers |-> Idle]
    /\ last = Idle
    /\ ncalls = 0
    /\ substituted = {}
    /\ tpc = "entry"
    /\ now = 0
    /\ slept = 0
    /\ job = "NONE"
    /\ status = "none"
    /\ completed = "no"
    /\ issued = {}
    /\ faults = {}
    /\ result = "none"
    /\ error = NoError
    /\ reason = "none"
    /\ count = [put_object |-> 0, start_transcription_job |-> 0, get_transcription_job |-> 0]
    /\ NoRanking
    /\ NoWrapping
    /\ NoConversion

\* the try block of generate_caption, generate_embeddings, chat_completion and
\* of the OpenAI transcribe_audio: the Bedrock and Groq providers call their
\* backend, the OpenAI providers return a placeholder without any call
OpInvoke ==
    /\ tpc = "invoke"
    /\ IF inst[slot].variant \in OpenAIVariants
       THEN /\ Finish("response")
            /\ UNCHANGED <<issued, faults>>
       ELSE /\ issued' = issued \cup {OutboundCall(inst[slot].variant)}
            /\ \E ok \in BOOLEAN :
                 IF ok
                 THEN Finish("response") /\ UNCHANGED faults
                 ELSE /\ Finish("op_error")
                      /\ faults' = faults \cup {OutboundCall(inst[slot].variant)}
    /\ UNCHANGED <<factoryVars, rankVars, now, slept, job, status, completed, reason, count, wrapVars, convVars>>

NextOp ==
    \/ NextPoll
    \/ OpInvoke

SpecOp == InitOp /\ [][NextOp]_vars

\* ------------------------------------------------------- clip selection
\* bound: similarities are the integers -1 .. MaxSim (a cosine similarity can
\* be negative)
MaxSim == 2
\* bound: clip times are the integers 0 .. MaxTime
MaxTime == 2

\* settings.VIDEO_CLIP_SPEECH_SEARCH_TOP_K, settings.VIDEO_CLIP_CAPTION_SEARCH_TOP_K
SpeechTopK == 1
CaptionTopK == 1

Sims == -1..MaxSim

\* the clips a search on channel ch can return: a similarity and a time range;
\* channel tells the clips of the two searches apart
Clips(ch) ==
    {c \in [similarity : Sims, start_time : 0..MaxTime, end_time : 0..MaxTime,
            channel : {ch}] : c.start_time < c.end_time}

\* the result lists of a search with top_k = k
SearchResults(ch, k) == UNION {[1..n -> Clips(ch)] : n \in 0..k}

\* speech_clips[0]["similarity"] if speech_clips else 0
TopSim(clips) == IF clips # <<>> THEN clips[1].similarity ELSE 0

\* get_video_clip_from_user_query has run both searches
InitRank ==
    /\ cap = "vision"
    /\ selector = "bedrock"
    /\ openaiKey = FALSE
    /\ groqKey = FALSE
    /\ up = [v \in Variants |-> TRUE]
    /\ inst = <<>>
    /\ slot = None
    /\ call = [c \in Callers |-> Idle]
    /\ last = Idle
    /\ ncalls = 0
    /\ substituted = {}
    /\ NoTranscription
    /\ speech_clips \in SearchResults("speech", SpeechTopK)
    /\ caption_clips \in SearchResults("caption", CaptionTopK)
    /\ rpc = "select"
    /\ video_clip_info = NoClip
    /\ extracted = NoExtract
    /\ rresult = "none"
    /\ NoWrapping
    /\ NoConversion

\* mutant of RankSelect: the comparison is turned around
RankSelectLowest ==
    /\ rpc = "select"
    /\ LET speech_sim == TopSim(speech_clips)
           caption_sim == TopSim(caption_clips)
           chosen == IF speech_sim < caption_sim THEN speech_clips ELSE caption_clips
       IN  IF chosen = <<>>
           THEN /\ rpc' = "done"
                /\ rresult' = "IndexError"
                /\ UNCHANGED video_clip_info
           ELSE /\ video_clip_info' = chosen[1]
                /\ rpc' = "extract"
                /\ UNCHANGED rresult
    /\ UNCHANGED <<factoryVars, pollVars, speech_clips, caption_clips, extracted, wrapVars, convVars>>

\* mutant of RankSelect: a tie goes to the speech clip
RankSelectSpeechOnTie ==
    /\ rpc = "select"
    /\ LET speech_sim == TopSim(speech_clips)
           caption_sim == TopSim(caption_clips)
           chosen == IF speech_sim >= caption_sim THEN speech_clips ELSE caption_clips
       IN  IF chosen = <<>>
           THEN /\ rpc' = "done"
                /\ rresult' = "IndexError"
                /\ UNCHANGED video_clip_info
           ELSE /\ video_clip_info' = chosen[1]
                /\ rpc' = "extract"
                /\ UNCHANGED rresult
    /\ UNCHANGED <<factoryVars, pollVars, speech_clips, caption_clips, extracted, wrapVars, convVars>>

\* speech_sim, caption_sim and
\* video_clip_info = speech_clips[0] if speech_sim > caption_sim else caption_clips[0];
\* indexing an empty list raises IndexError
RankSelect ==
    /\ rpc = "select"
    /\ LET speech_sim == TopSim(speech_clips)
           caption_sim == TopSim(caption_clips)
           chosen == IF speech_sim > caption_sim THEN speech_clips ELSE caption_clips
       IN  IF chosen = <<>>
           THEN /\ rpc' = "done"
                /\ rresult' = "IndexError"
                /\ UNCHANGED video_clip_info
           ELSE /\ video_clip_info' = chosen[1]
                /\ rpc' = "extract"
                /\ UNCHANGED rresult
    /\ UNCHANGED <<factoryVars, pollVars, speech_clips, caption_clips, extracted, wrapVars, convVars>>

\* mutant of RankExtract: the two times are passed in each other's place
RankExtractSwapped ==
    /\ rpc = "extract"
    /\ extracted' = [called |-> TRUE, start_time |-> video_clip_info.end_time,
                     end_time |-> video_clip_info.start_time]
    /\ \E ok \in BOOLEAN : rresult' = IF ok THEN "clip" ELSE "extract_error"
    /\ rpc' = "done"
    /\ UNCHANGED <<factoryVars, pollVars, speech_clips, caption_clips, video_clip_info, wrapVars, convVars>>

\* extract_video_clip(start_time=video_clip_info["start_time"],
\* end_time=video_clip_info["end_time"], ...); return video_clip.filename, or
\* the exception of extract_video_clip
RankExtract ==
    /\ rpc = "extract"
    /\ extracted' = [called |-> TRUE, start_time |-> video_clip_info.start_time,
                     end_time |-> video_clip_info.end_time]
    /\ \E ok \in BOOLEAN : rresult' = IF ok THEN "clip" ELSE "extract_error"
    /\ rpc' = "done"
    /\ UNCHANGED <<factoryVars, pollVars, speech_clips, caption_clips, video_clip_info, wrapVars, convVars>>

NextRank ==
    \/ RankSelect
    \/ RankExtract

SpecRank == InitRank /\ [][NextRank]_vars

\* --------------------------------------------------- ingestion wrappers
\* bound: wrapper calls made in one behaviour
MaxWrapCalls == 2

\* aws_patch.py: aws_transcribe_function, aws_vision_function,
\* aws_embeddings_function, which share the module's provider globals
PatchFns == {"aws_transcribe_function", "aws_vision_function", "aws_embeddings_function"}

\* aws_functions.py: the Pixeltable UDFs, which ask the factory in every call
UdfFns == {"aws_transcribe", "aws_vision", "aws_embeddings"}

WrapFns == PatchFns \cup UdfFns

WrapCap(fn) ==
    CASE fn \in {"aws_transcribe_function", "aws_transcribe"} -> "transcription"
      [] fn \in {"aws_vision_function", "aws_vision"} -> "vision"
      [] fn \in {"aws_embeddings_function", "aws_embeddings"} -> "embeddings"

\* what a caller may pass as audio_data / image_data: bytes, an object with
\* read(), a PIL image (convert(), no read()), anything else (None, a number);
\* the text of the embeddings wrappers is used as it is
WrapInputs(fn) ==
    IF WrapCap(fn) = "embeddings" THEN {"text"} ELSE {"bytes", "file", "image", "other"}

\* the statements between the start of the try block and the provider call:
\* temp_file.write(...) takes bytes; base64.b64encode(...) takes bytes; a PIL
\* image is converted by the vision wrappers only
PrepareRaises(fn, x) ==
    CASE WrapCap(fn) = "transcription" -> x \notin {"bytes", "file"}
      [] WrapCap(fn) = "vision" -> x = "other"
      [] OTHER -> FALSE

\* the method the wrapper calls on the provider, and the number of positional
\* arguments it passes
CallSite(fn) ==
    CASE WrapCap(fn) = "transcription" -> [method |-> "transcribe_audio", nargs |-> 1]
      [] WrapCap(fn) = "vision" -> [method |-> "analyze_image", nargs |-> 2]
      [] WrapCap(fn) = "embeddings" -> [method |-> "generate_embeddings", nargs |-> 1]

\* the capability operation every provider class of the capability defines,
\* and the number of positional arguments it requires (none has a default)
ProviderMethod(c) ==
    CASE c = "transcription" -> [method |-> "transcribe_audio", nargs |-> 2]
      [] c = "vision" -> [method |-> "generate_caption", nargs |-> 2]
      [] c = "embeddings" -> [method |-> "generate_embeddings", nargs |-> 2]

\* how the provider call and the statements after it end inside the try block:
\* no such attribute; a missing argument; the operation's own ProviderError;
\* or the response object is sliced (result[:100], result[0]), which a pydantic
\* model does not support
InvokeRaises(fn) ==
    LET site == CallSite(fn)
        def == ProviderMethod(WrapCap(fn))
    IN  IF site.method # def.method THEN {"AttributeError"}
        ELSE IF site.nargs # def.nargs THEN {"TypeError"}
        ELSE {"ProviderError", "TypeError"}

\* the order of the steps inside the try block of each wrapper
FirstStep(fn) ==
    IF fn \in PatchFns \/ WrapCap(fn) = "embeddings" THEN "acquire" ELSE "prepare"

AfterAcquire(fn) ==
    IF fn \in PatchFns /\ WrapCap(fn) # "embeddings" THEN "prepare" ELSE "invoke"

AfterPrepare(fn) == IF fn \in PatchFns THEN "invoke" ELSE "acquire"

\* what a get_<cap>_provider_with_fallback() call gives: a provider of one of
\* the capability's variants, or ProviderUnavailableError.  The fallback of
\* vision and embeddings is an OpenAI provider, whose initialize() cannot
\* fail, so only the transcription getter (fallback AWS Transcribe) raises
Acquired(c) ==
    CapVariants(c) \cup (IF c = "transcription" THEN {"raise"} ELSE {})

\* the three getter calls of _init_providers in their order: the globals after
\* them, when the calls end as in o; the first that raises ends the function
InitProviders(g, o) ==
    LET t == [g EXCEPT !.transcription = o["transcription"]]
        v == [t EXCEPT !.vision = o["vision"]]
        e == [v EXCEPT !.embeddings = o["embeddings"], !.initialized = TRUE]
    IN  IF o["transcription"] = "raise" THEN g
        ELSE IF o["vision"] = "raise" THEN t
        ELSE IF o["embeddings"] = "raise" THEN v
        ELSE e

\* the ingestion module is imported; no wrapper was called yet
InitWrap ==
    /\ NoFactory
    /\ NoTranscription
    /\ NoRanking
    /\ NoWrapping
    /\ NoConversion

\* Pixeltable (or the test script) calls a wrapper
WrapCall(fn, x) ==
    /\ wpc \in {"idle", "done"}
    /\ wcalls < MaxWrapCalls
    /\ wcalls' = wcalls + 1
    /\ wfn' = fn
    /\ winput' = x
    /\ wpc' = FirstStep(fn)
    /\ wprovider' = "None"
    /\ wexc' = "none"
    /\ wcaught' = "none"
    /\ wret' = NoReturn
    /\ UNCHANGED <<factoryVars, pollVars, rankVars, convVars, wglobals, processor, vcall>>

\* aws_patch: await _init_providers(); aws_functions: await _get_<cap>_provider()
WrapAcquire ==
    /\ wpc = "acquire"
    /\ IF wfn \in PatchFns
       THEN IF wglobals.initialized
            THEN /\ wprovider' = wglobals[WrapCap(wfn)]
                 /\ wpc' = AfterAcquire(wfn)
                 /\ UNCHANGED <<wglobals, wexc>>
            ELSE \E o \in [{"transcription", "vision", "embeddings"} -> Variants \cup {"raise"}] :
                   /\ \A c \in DOMAIN o : o[c] \in Acquired(c)
                   /\ wglobals' = InitProviders(wglobals, o)
                   /\ IF wglobals'.initialized
                      THEN /\ wprovider' = wglobals'[WrapCap(wfn)]
                           /\ wpc' = AfterAcquire(wfn)
                           /\ UNCHANGED wexc
                      ELSE /\ wexc' = "ProviderUnavailableError"
                           /\ wpc' = "except"
                           /\ UNCHANGED wprovider
       ELSE /\ \E a \in Acquired(WrapCap(wfn)) :
                 IF a = "raise"
                 THEN /\ wexc' = "ProviderUnavailableError"
                      /\ wpc' = "except"
                      /\ UNCHANGED wprovider
                 ELSE /\ wprovider' = a
                      /\ wpc' = AfterAcquire(wfn)
                      /\ UNCHANGED wexc
            /\ UNCHANGED wglobals
    /\ UNCHANGED <<factoryVars, pollVars, rankVars, convVars, wfn, winput, wcaught, wret, wcalls, processor, vcall>>

\* the temporary file of the transcription wrappers, the base64 encoding of
\* the vision wrappers
WrapPrepare ==
    /\ wpc = "prepare"
    /\ IF PrepareRaises(wfn, winput)
       THEN wexc' = "TypeError" /\ wpc' = "except"
       ELSE wpc' = AfterPrepare(wfn) /\ UNCHANGED wexc
    /\ UNCHANGED <<factoryVars, pollVars, rankVars, convVars, wfn, winput, wglobals, wprovider, wcaught, wret, wcalls, processor, vcall>>

\* result = await provider.<operation>(...) and the logging of the result
WrapInvoke ==
    /\ wpc = "invoke"
    /\ wexc' \in InvokeRaises(wfn)
    /\ wpc' = "except"
    /\ UNCHANGED <<factoryVars, pollVars, rankVars, convVars, wfn, winput, wglobals, wprovider, wcaught, wret, wcalls, processor, vcall>>

\* mutant of WrapExcept: the exception is logged and raised again
WrapExceptReraises ==
    /\ wpc = "except"
    /\ wcaught' = wexc
    /\ wret' = [kind |-> "raised", empty |-> FALSE]
    /\ wpc' = "done"
    /\ UNCHANGED <<factoryVars, pollVars, rankVars, convVars, wfn, winput, wglobals, wprovider, wexc, wcalls, processor, vcall>>

\* except Exception as e: logger.error(...); return "" (return [] in the
\* embeddings wrappers)
WrapExcept ==
    /\ wpc = "except"
    /\ wcaught' = wexc
    /\ wret' = [kind |-> IF WrapCap(wfn) = "embeddings" THEN "list" ELSE "str",
                empty |-> TRUE]
    /\ wpc' = "done"
    /\ UNCHANGED <<factoryVars, pollVars, rankVars, convVars, wfn, winput, wglobals, wprovider, wexc, wcalls, processor, vcall>>

\* the provider fields after the three assignments of _get_providers, when
\* the getter calls end as in o; the first that raises ends the function
GetProviders(p, o) ==
    LET t == [p EXCEPT !.transcription = o["transcription"]]
        v == [t EXCEPT !.vision = o["vision"]]
        e == [v EXCEPT !.embeddings = o["embeddings"]]
    IN  IF o["transcription"] = "raise" THEN p
        ELSE IF o["vision"] = "raise" THEN t
        ELSE IF o["embeddings"] = "raise" THEN v
        ELSE e

\* mutant of VpGetProviders: only the transcription provider is stored
VpGetProvidersTranscriptionOnly ==
    /\ vcall.n < MaxWrapCalls
    /\ IF processor.transcription = "None"
       THEN \E a \in Acquired("transcription") :
              /\ processor' = [processor EXCEPT !.transcription = IF a = "raise" THEN @ ELSE a]
              /\ vcall' = [n |-> vcall.n + 1,
                           outcome |-> IF a = "raise" THEN "raised" ELSE "acquired"]
       ELSE /\ vcall' = [n |-> vcall.n + 1, outcome |-> "kept"]
            /\ UNCHANGED processor
    /\ UNCHANGED <<factoryVars, pollVars, rankVars, convVars, wfn, winput, wpc, wglobals, wprovider, wexc, wcaught, wret, wcalls>>

\* AWSVideoProcessor._get_providers, run to its end by asyncio.run in
\* setup_table: if self._transcription_provider is None, the three getters in
\* their order
VpGetProviders ==
    /\ vcall.n < MaxWrapCalls
    /\ IF processor.transcription = "None"
       THEN \E o \in [{"transcription", "vision", "embeddings"} -> Variants \cup {"raise"}] :
              /\ \A c \in DOMAIN o : o[c] \in Acquired(c)
              /\ processor' = GetProviders(processor, o)
              /\ vcall' = [n |-> vcall.n + 1,
                           outcome |-> IF \E c \in DOMAIN o : o[c] = "raise"
                                       THEN "raised" ELSE "acquired"]
       ELSE /\ vcall' = [n |-> vcall.n + 1, outcome |-> "kept"]
            /\ UNCHANGED processor
    /\ UNCHANGED <<factoryVars, pollVars, rankVars, convVars, wfn, winput, wpc, wglobals, wprovider, wexc, wcaught, wret, wcalls>>

NextWrap ==
    \/ \E fn \in WrapFns : \E x \in WrapInputs(fn) : WrapCall(fn, x)
    \/ VpGetProviders
    \/ WrapAcquire
    \/ WrapPrepare
    \/ WrapInvoke
    \/ WrapExcept

SpecWrap == InitWrap /\ [][NextWrap]_vars

\* ---------------------------------------------------- message conversion
\* bound: records the agent's memory returns
MaxMemory == 1
\* bound: parts of one list content
MaxParts == 2

Roles == {"system", "user", "assistant"}

\* the parts a list content may hold: OpenAI-style text and image_url parts
\* (a data: URL of an image, or a link), and Claude-style image parts
Parts ==
    {[type |-> "text", text |-> "hello"],
     [type |-> "image_url", scheme |-> "data:image", media_type |-> "image/png", data |-> "iVBORw0K"],
     [type |-> "image_url", scheme |-> "https", media_type |-> "none", data |-> "none"],
     [type |-> "image", media_type |-> "image/jpeg", data |-> "/9j/4AAQ"]}

\* message["content"]: a string, a list of parts, or another object
Contents ==
    {[kind |-> "str", text |-> "hi"], [kind |-> "other", text |-> "None"]} \cup
    {[kind |-> "list", parts |-> p] : p \in UNION {[1..n -> Parts] : n \in 0..MaxParts}}

Messages == [role : Roles, content : Contents]

\* the image part _build_chat_history builds from image_base64
AgentImagePart(b) == [type |-> "image", media_type |-> "image/jpeg", data |-> b]

\* _build_chat_history: the memory records, then the user message with the
\* image part (if any) before the text part
BuildChatHistory(records, user_message, image) ==
    LET user_content ==
            (IF image # "" THEN <<AgentImagePart(image)>> ELSE <<>>) \o
            <<[type |-> "text", text |-> user_message]>>
    IN  records \o <<[role |-> "user", content |-> [kind |-> "list", parts |-> user_content]]>>

\* the items of a list content for which the loop appends a part: text items,
\* and image_url items whose URL starts with "data:image"
Appended(item) ==
    \/ item.type = "text"
    \/ item.type = "image_url" /\ item.scheme = "data:image"

\* the part appended for an item
ConvertItem(item) ==
    IF item.type = "text"
    THEN [type |-> "text", text |-> item.text]
    ELSE [type |-> "image", source_type |-> "base64", media_type |-> item.media_type,
          data |-> item.data]

\* claude_content of one message
ConvertContent(content) ==
    CASE content.kind = "str" -> <<[type |-> "text", text |-> content.text]>>
      [] content.kind = "list" ->
            LET kept == SelectSeq(content.parts, Appended)
            IN  [i \in 1..Len(kept) |-> ConvertItem(kept[i])]
      [] OTHER -> <<[type |-> "text", text |-> content.text]>>

\* mutant of NotSystem: system messages are converted like the others
NotSystemKeepsAll(message) == message.role \in Roles

\* _convert_messages_to_claude_format: system messages are skipped
NotSystem(message) == message.role # "system"

ConvertMessages(messages) ==
    LET kept == SelectSeq(messages, NotSystem)
    IN  [i \in 1..Len(kept) |-> [role |-> kept[i].role, content |-> ConvertContent(kept[i].content)]]

\* a chat turn of the Bedrock agent is about to start
InitConv ==
    /\ NoFactory
    /\ NoTranscription
    /\ NoRanking
    /\ NoWrapping
    /\ memory \in UNION {[1..n -> Messages] : n \in 0..MaxMemory}
    /\ image_base64 \in {"", "/9j/4AAQ"}
    /\ history = <<>>
    /\ claude_messages = <<>>
    /\ cpc = "build"

\* chat_history = self._build_chat_history(system_prompt, message, image_base64);
\* messages = [{"role": "system", "content": system_prompt}] + chat_history
ConvBuild ==
    /\ cpc = "build"
    /\ history' = <<[role |-> "system", content |-> [kind |-> "str", text |-> "prompt"]]>> \o
                  BuildChatHistory(memory, "question", image_base64)
    /\ cpc' = "convert"
    /\ UNCHANGED <<factoryVars, pollVars, rankVars, wrapVars, memory, image_base64, claude_messages>>

\* chat_completion: claude_messages = self._convert_messages_to_claude_format(messages)
ConvConvert ==
    /\ cpc = "convert"
    /\ claude_messages' = ConvertMessages(history)
    /\ cpc' = "done"
    /\ UNCHANGED <<factoryVars, pollVars, rankVars, wrapVars, memory, image_base64, history>>

NextConv ==
    \/ ConvBuild
    \/ ConvConvert

SpecConv == InitConv /\ [][NextConv]_vars

\* ------------------------------------------------------------------ claims
Primaries == {i \in DOMAIN inst : inst[i].role = "primary"}
Secondaries == {i \in DOMAIN inst : inst[i].role = "secondary"}

\* the credential the secondary variant needs is in the settings (the AWS
\* credentials are no setting the factory reads)
SecondaryCredential ==
    CASE SecondaryVariant \in OpenAIVariants -> openaiKey
      [] SecondaryVariant = "GroqChat" -> groqKey
      [] OTHER -> TRUE

FallbackEnded == last.pc = "done" /\ last.kind = "fallback"
PlainEnded == last.pc = "done" /\ last.kind = "plain"

\* C1: a with-fallback getter returns a provider whenever the primary or the
\* secondary could be constructed, initialized and would report available all
\* through the call; it raises only when both fail.
C1_FallbackRaisesOnlyWhenBothFail ==
    FallbackEnded =>
        /\ (last.upPrim \/ last.upSec) => last.outcome = "returned"
        /\ last.outcome = "raised" => ~last.upPrim /\ ~last.upSec

\* C2: every with-fallback call ends by returning a provider that is available
\* or by raising; it never returns an unavailable provider, and never nothing.
C2_FallbackReturnsAvailableOrRaises ==
    FallbackEnded =>
        \/ /\ last.outcome = "returned"
           /\ last.ret \in DOMAIN inst
           /\ IsAvailable(inst[last.ret])
        \/ /\ last.outcome = "raised"
           /\ last.err = "all"
           /\ last.ret = None

\* a with-fallback call that followed earlier calls returned the cached primary
\* after testing it
C2_Witness ==
    /\ FallbackEnded
    /\ ncalls > 1
    /\ last.outcome = "returned"
    /\ last.prim = "available"
    /\ last.ret = slot
    /\ inst[slot].variant \in Fallible

\* C3: when the primary fails and the credential of the secondary is absent,
\* the secondary is never constructed: the attempt is skipped and the call
\* raises the all-providers-unavailable error, for every capability.
C3_NoSecondaryWithoutCredential ==
    (FallbackEnded /\ last.prim \in {"raised", "unavailable"} /\ ~SecondaryCredential)
        => /\ last.sec = "skipped"
           /\ last.outcome = "raised"
           /\ last.err = "all"
           /\ Secondaries = {}

\* C4: when initialize() raises in a plain getter the error reaches the caller
\* and the cache slot is empty afterwards.
C4_FailedInitLeavesSlotEmpty ==
    [][(last' # last /\ last'.kind = "plain" /\ last'.err = "init")
            => (last'.outcome = "raised" /\ slot' = None)]_vars

\* C5: concurrent first calls construct exactly one provider, run initialize()
\* exactly once, and all receive the same cached instance.
C5_InitializeOnce ==
    /\ Cardinality(Primaries) <= 1
    /\ \A i \in Primaries : inst[i].inits <= 1
    /\ \A c \in Callers :
         (PlainEnded /\ last.outcome = "returned" /\ call[c].provider # None)
             => call[c].provider = last.ret

\* C6: once the cache slot is populated, no getter call replaces the instance
\* in it.
C6_SlotNeverReplaced == [][slot # None => slot' = slot]_vars

\* C7: a with-fallback getter that substitutes the secondary returns it and
\* leaves the cache slot as it is: the slot never holds a secondary.
C7_SubstitutionLeavesSlot ==
    /\ slot # None => inst[slot].role = "primary"
    /\ (FallbackEnded /\ last.sec = "returned") =>
           /\ last.ret \in Secondaries
           /\ last.ret # slot

\* the secondary was substituted for a cached primary that is unavailable
C7_Witness ==
    /\ FallbackEnded
    /\ last.sec = "returned"
    /\ last.prim = "unavailable"
    /\ slot # None
    /\ ~IsAvailable(inst[slot])

\* C8: after a with-fallback getter substituted the secondary for a failed
\* primary, a later plain getter call does not return that primary again.
C8_SubstitutedPrimaryNotReturned ==
    (PlainEnded /\ last.outcome = "returned") => last.ret \notin last.since

\* C9: in a with-fallback call the secondary is constructed only after the
\* primary was attempted in that call and raised or reported unavailable;
\* never first, and never when the primary is available.
C9_SecondaryOnlyAfterPrimaryFailed ==
    /\ \A c \in Callers :
         call[c].pc = "secondary" =>
             /\ call[c].kind = "fallback"
             /\ call[c].prim \in {"raised", "unavailable"}
             /\ call[c].prim = "unavailable" => call[c].attempted # None
    /\ last.sec # "none" =>
             /\ last.kind = "fallback"
             /\ last.prim \in {"raised", "unavailable"}
    /\ last.prim = "available" => last.ret \in Primaries

\* the secondary was constructed and returned after the primary's initialize()
\* raised in the same call
C9_Witness ==
    /\ FallbackEnded
    /\ last.sec = "returned"
    /\ last.prim = "raised"
    /\ last.attempted # None

\* the calls that clean up after a job: the job itself and the uploaded payload
CleanupOps == {"delete_transcription_job", "delete_object"}

TranscribeEnded == tpc = "done"

\* C10 (as stated): a job that goes SUBMITTED, IN_PROGRESS, COMPLETED and
\* reaches COMPLETED at any time before the deadline elapses, with every call
\* before the clean-up succeeding: the poller returns the transcript, issues the
\* delete of the job and of the payload, and reports no timeout.
C10_CompletedBeforeDeadlineReturns ==
    (TranscribeEnded /\ completed = "in_time" /\ faults \subseteq CleanupOps)
        => /\ result = "transcript"
           /\ CleanupOps \subseteq issued

\* C10 (amended): when a status query issued before the deadline observes
\* COMPLETED and the transcript is fetched and parsed, the poller returns the
\* transcript, has issued the delete of the job and of the payload, and
\* reports no timeout.
C10_ObservedCompletedReturns ==
    (TranscribeEnded /\ status = "COMPLETED" /\ "download_transcript" \notin faults)
        => /\ result = "transcript"
           /\ CleanupOps \subseteq issued

\* the job was seen COMPLETED by the last status query the deadline allows,
\* and the transcript was returned
C10_Witness ==
    /\ TranscribeEnded
    /\ status = "COMPLETED"
    /\ completed = "in_time"
    /\ now >= MaxWaitTime - PollInterval
    /\ result = "transcript"
    /\ CleanupOps \subseteq issued

\* the message of exception e holds the text w
Mentions(e, w) == \E i \in DOMAIN e.message : e.message[i] = w

\* C11: when the deadline elapses before the job reaches a terminal state, the
\* call (unless its caller cancelled it) fails with a timeout error that names
\* the job, and no delete call has been issued, neither for the job nor for the
\* uploaded payload.
C11_TimeoutNamesJobNoDelete ==
    /\ (TranscribeEnded /\ now >= MaxWaitTime /\ result # "cancelled") => result = "timeout"
    /\ result = "timeout" =>
           /\ error.type = "AWSTranscribeError"
           /\ Mentions(error, "timed out")
           /\ Mentions(error, JobName)
           /\ issued \cap CleanupOps = {}

\* the call timed out on a job that was still running
C11_Witness ==
    /\ TranscribeEnded
    /\ result = "timeout"
    /\ job = "IN_PROGRESS"
    /\ status = "IN_PROGRESS"
    /\ now >= MaxWaitTime

\* C12: when a status query observes FAILED, the call raises a job-failed
\* error that carries the failure reason the job reports, and the delete of the
\* job and of the uploaded payload has been issued before the error reaches the
\* caller.
C12_FailedJobCleansUp ==
    (TranscribeEnded /\ status = "FAILED")
        => /\ result = "job_failed"
           /\ reason # "absent" => Mentions(error, reason)
           /\ CleanupOps \subseteq issued

\* C13: whenever a status query has observed a terminal state, the delete of
\* the job has been issued when the call returns or raises; when the job is
\* COMPLETED and fetching or parsing the transcript fails, the job and the
\* payload are still deleted.
C13_TerminalStateDeletesJob ==
    (TranscribeEnded /\ status \in {"COMPLETED", "FAILED"})
        => /\ "delete_transcription_job" \in issued
           /\ "download_transcript" \in faults => CleanupOps \subseteq issued

\* C14: one transcribe_audio call uploads the payload at most once and starts
\* at most one job; after the job failed, timed out or a status query raised,
\* the call ends with the error and nothing was submitted again.
C14_AtMostOneJob ==
    /\ count.put_object <= 1
    /\ count.start_transcription_job <= 1
    /\ (TranscribeEnded /\ result \in {"job_failed", "timeout", "status_error"})
           => /\ error.type = "AWSTranscribeError"
              /\ count.put_object = 1
              /\ count.start_transcription_job = 1

\* the job failed after a poll had seen it running, and the call ended with
\* the error
C14_Witness ==
    /\ TranscribeEnded
    /\ result = "job_failed"
    /\ now >= PollInterval
    /\ count.start_transcription_job = 1
    /\ Mentions(error, "Transcription job failed")

RankEnded == rpc = "done"

\* the clips the two searches produced
Produced ==
    {speech_clips[i] : i \in DOMAIN speech_clips} \cup
    {caption_clips[i] : i \in DOMAIN caption_clips}

BothProduced == speech_clips # <<>> /\ caption_clips # <<>>

\* the larger of the two channel similarities
MaxTopSim ==
    IF TopSim(speech_clips) > TopSim(caption_clips)
    THEN TopSim(speech_clips) ELSE TopSim(caption_clips)

\* C15: when both channels have similarity 0 (each with a top candidate of
\* similarity 0, or both without a candidate), clip selection fails with the
\* no-candidates error and hands no time range to clip extraction; it fails
\* with that error only when no channel produced a usable candidate.
C15_NoCandidatesError ==
    RankEnded =>
        /\ (TopSim(speech_clips) = 0 /\ TopSim(caption_clips) = 0 /\
            (BothProduced \/ Produced = {}))
               => (rresult = "NoCandidatesError" /\ ~extracted.called)
        /\ rresult = "NoCandidatesError" => MaxTopSim <= 0

\* C16: whenever at least one channel has a top candidate of similarity > 0
\* (no results counting as 0), clip selection yields a clip that one of the
\* searches produced, and its similarity is the maximum of the two channel
\* similarities.
C16_SelectsProducedMaximum ==
    (RankEnded /\ MaxTopSim > 0)
        => /\ rresult # "IndexError"
           /\ video_clip_info \in Produced
           /\ video_clip_info.similarity = MaxTopSim
           /\ extracted.called

\* the speech search alone produced a clip, and it was selected
C16_Witness ==
    /\ RankEnded
    /\ caption_clips = <<>>
    /\ TopSim(speech_clips) > 0
    /\ video_clip_info = speech_clips[1]

\* C17: when both channels return a candidate and the speech similarity is
\* strictly greater, the speech candidate's (start_time, end_time) is what
\* extract_video_clip is called with; when the caption similarity is strictly
\* greater, the caption candidate's.
C17_WinnerTimeRangeExtracted ==
    (RankEnded /\ BothProduced /\ TopSim(speech_clips) # TopSim(caption_clips))
        => LET winner == IF TopSim(speech_clips) > TopSim(caption_clips)
                         THEN speech_clips[1] ELSE caption_clips[1]
           IN  /\ extracted.called
               /\ extracted.start_time = winner.start_time
               /\ extracted.end_time = winner.end_time

\* the speech clip won over a caption clip with another time range
C17_Witness ==
    /\ RankEnded
    /\ BothProduced
    /\ TopSim(speech_clips) > TopSim(caption_clips)
    /\ speech_clips[1].start_time # caption_clips[1].start_time
    /\ extracted.called
    /\ extracted.start_time = speech_clips[1].start_time

\* C18 (as stated): when the top speech similarity equals the top caption
\* similarity, the tie goes to the speech clip, on every tie.
C18_TieGoesToSpeech ==
    (RankEnded /\ BothProduced /\ TopSim(speech_clips) = TopSim(caption_clips))
        => video_clip_info = speech_clips[1]

\* C18 (amended): when the top speech similarity equals the top caption
\* similarity, the tie goes to the caption clip, on every tie.
C18_TieGoesToCaption ==
    (RankEnded /\ BothProduced /\ TopSim(speech_clips) = TopSim(caption_clips))
        => /\ video_clip_info = caption_clips[1]
           /\ extracted.called
           /\ extracted.start_time = caption_clips[1].start_time
           /\ extracted.end_time = caption_clips[1].end_time

\* a tie at a similarity above 0 between clips with different time ranges
C18_Witness ==
    /\ RankEnded
    /\ BothProduced
    /\ TopSim(speech_clips) = TopSim(caption_clips)
    /\ TopSim(speech_clips) > 0
    /\ speech_clips[1].end_time # caption_clips[1].end_time
    /\ video_clip_info.channel = "caption"

\* the client handles the provider holds are set (the OpenAI providers hold
\* none)
HandlesSet(p) ==
    CASE p.variant \in OpenAIVariants -> TRUE
      [] p.variant = "AWSTranscribe" -> p.client /\ p.s3_client
      [] OTHER -> p.client

\* C19: is_available() is true only when initialize() has completed
\* successfully on the instance and its client handles are set; it is false
\* before initialize() and after an initialize() that raised.
C19_AvailableOnlyAfterInitialize ==
    \A i \in DOMAIN inst :
        /\ IsAvailable(inst[i]) =>
               /\ inst[i].inits > 0
               /\ inst[i].initialized
               /\ HandlesSet(inst[i])
        /\ inst[i].inits = 0 => ~IsAvailable(inst[i])
        /\ inst[i].failed => ~IsAvailable(inst[i])

\* C20: a capability operation invoked on a provider on which no initialize()
\* has succeeded ends with ProviderUnavailableError and has made no outbound
\* call; transcribe_audio has uploaded nothing and started no job.
C20_UninitializedOperationRefused ==
    (tpc \notin {"idle", "entry"} /\ ~inst[slot].initialized)
        => /\ tpc = "done"
           /\ result = "provider_unavailable"
           /\ error.type = "ProviderUnavailableError"
           /\ issued = {}
           /\ count.put_object = 0
           /\ count.start_transcription_job = 0
           /\ job = "NONE"

\* an operation was refused on a provider whose initialize() had raised after
\* it had set the client
C20_Witness ==
    /\ tpc = "done"
    /\ result = "provider_unavailable"
    /\ inst[slot].client
    /\ inst[slot].failed
    /\ issued = {}

\* the ways a long-running transcription fails, by kind: the upload or the job
\* start failed, the job reached FAILED, the deadline elapsed
FailureKinds ==
    {{"api_error", "unexpected_error"}, {"job_failed"}, {"timeout"}}

\* C21: the error raised for one kind of failure (submission, job failed,
\* timeout) is of another kind (exception class) than the errors raised for the
\* other two, so that the caller can tell which of the three occurred.
C21_FailureKindsDistinct ==
    \A k \in FailureKinds :
        (TranscribeEnded /\ result \in k)
            => \A k2 \in FailureKinds \ {k} : \A r \in k2 :
                   ErrorOf(r).type # error.type

WrapEnded == wpc = "done"

\* C22: no failure of the provider acquisition or of the capability operation
\* is turned into an empty or default result by the ingestion wrappers: a call
\* in which one of them failed ends with the error reaching the caller.
C22_FailureNotSwallowed ==
    (WrapEnded /\ wcaught # "none") => wret.kind = "raised"

\* C23: aws_transcribe_function and aws_vision_function give their caller a
\* string for every input, also when the acquisition, the preparation of the
\* input or the operation fails; they never raise.
C23_WrappersReturnString ==
    (WrapEnded /\ wfn \in {"aws_transcribe_function", "aws_vision_function"})
        => /\ wret.kind = "str"
           /\ wexc # "none" => wcaught = wexc /\ wret.empty

\* the test script's call: bytes that are no image, a provider was acquired,
\* the operation failed and the wrapper returned the empty string
C23_Witness ==
    /\ WrapEnded
    /\ wfn = "aws_vision_function"
    /\ winput = "bytes"
    /\ wprovider # "None"
    /\ wcaught \notin {"none", "ProviderUnavailableError"}
    /\ wret = [kind |-> "str", empty |-> TRUE]

\* C24: a cancellation that reaches the call while it is suspended between two
\* status queries ends the call: control is back with the caller, and no
\* external call, in particular no status query, is issued afterwards.
C24_CancelAbortsPolling ==
    [][/\ result' = "cancelled" => (tpc' = "done" /\ error'.type = "CancelledError")
       /\ result = "cancelled" => (count' = count /\ issued' = issued /\ tpc' = "done")]_vars

\* the call was cancelled in the sleep after its second status query
C24_Witness ==
    /\ TranscribeEnded
    /\ result = "cancelled"
    /\ count.get_transcription_job = 2
    /\ job \in {"QUEUED", "IN_PROGRESS"}

\* the variant each value of the provider type enums stands for
SelectedVariant(c, s) ==
    CASE s = "bedrock" ->
            (CASE c = "vision" -> "BedrockVision"
               [] c = "embeddings" -> "BedrockEmbeddings"
               [] c = "chat" -> "BedrockChat"
               [] OTHER -> "AWSTranscribe")
      [] s = "openai" ->
            (CASE c = "vision" -> "OpenAIVision"
               [] c = "embeddings" -> "OpenAIEmbeddings"
               [] OTHER -> "OpenAITranscription")
      [] s = "groq" -> "GroqChat"

\* C25: the variant a plain getter for vision, embeddings or chat constructs
\* is the one its selector names, whatever the letter case of the selector and
\* whatever the credentials and the backends are.
C25_SelectorAloneDecides ==
    cap \in {"vision", "embeddings", "chat"} =>
        \A i \in Primaries :
            \A s \in Selectors :
                Lower(s) = Lower(selector) => inst[i].variant = SelectedVariant(cap, Lower(s))

\* a selector in capitals selected the Bedrock variant
C25_Witness ==
    /\ cap \in {"vision", "embeddings", "chat"}
    /\ selector = "BEDROCK"
    /\ PlainEnded
    /\ last.outcome = "returned"
    /\ inst[last.ret].variant \in {"BedrockVision", "BedrockEmbeddings", "BedrockChat"}

\* C26: the primary transcription provider is the one TRANSCRIPTION_PROVIDER
\* names: bedrock selects AWS Transcribe, openai selects the OpenAI provider.
C26_TranscriptionSelectorDecides ==
    cap = "transcription" =>
        \A i \in Primaries : inst[i].variant = SelectedVariant(cap, Lower(selector))

\* C27: a with-fallback call in which the configured primary would initialize
\* and report available all through the call returns the primary, however
\* earlier calls went.
C27_OutcomeIgnoresHistory ==
    (FallbackEnded /\ last.upPrim)
        => /\ last.outcome = "returned"
           /\ last.ret \in Primaries
           /\ inst[last.ret].variant = PrimaryVariant

\* C29: the external calls of one transcribe_audio call come in the order
\* upload, job start, status queries, job delete, payload delete: each is
\* issued only after those before it and before those after it; no job is
\* started after a failed upload, and no status is queried after a failed start.
C29_FixedOrder ==
    [][/\ count'.put_object > count.put_object => issued = {}
       /\ count'.start_transcription_job > count.start_transcription_job
              => (issued = {"put_object"} /\ "put_object" \notin faults)
       /\ count'.get_transcription_job > count.get_transcription_job
              => /\ {"put_object", "start_transcription_job"} \subseteq issued
                 /\ issued \cap (CleanupOps \cup {"download_transcript"}) = {}
                 /\ faults = {}
       /\ "delete_transcription_job" \in issued' \ issued
              => /\ count.get_transcription_job >= 1
                 /\ "delete_object" \notin issued
       /\ "delete_object" \in issued' \ issued
              => "delete_transcription_job" \in issued]_vars

\* a call that queried the status twice and went through all five operations
C29_Witness ==
    /\ TranscribeEnded
    /\ result = "transcript"
    /\ count = [put_object |-> 1, start_transcription_job |-> 1, get_transcription_job |-> 2]
    /\ CleanupOps \subseteq issued
    /\ faults = {}

\* the poller saw COMPLETED and fetched the transcript
TranscriptFetched ==
    /\ status = "COMPLETED"
    /\ "download_transcript" \in issued \ faults

\* C30: once the job is COMPLETED and the transcript is fetched, a failure of
\* the job delete or of the payload delete does not fail the call: it returns
\* the transcript, and the payload delete is attempted after a failed job
\* delete.
C30_CleanupBestEffort ==
    /\ (TranscribeEnded /\ TranscriptFetched)
           => /\ result = "transcript"
              /\ error = NoError
              /\ CleanupOps \subseteq issued
    /\ "delete_transcription_job" \in faults => tpc \in {"delete_object", "done"}

\* both deletes failed and the call returned the transcript
C30_Witness ==
    /\ TranscribeEnded
    /\ TranscriptFetched
    /\ CleanupOps \subseteq faults
    /\ result = "transcript"

ConvEnded == cpc = "done"

\* C28: the conversion loses no content: a message whose content is a string
\* becomes a message with exactly one text part holding that string, and a
\* message whose content is a list becomes a message with one part for every
\* part of the list, the image parts built by the agent included.
C28_ConversionLossless ==
    ConvEnded =>
        LET kept == SelectSeq(history, NotSystem)
        IN  /\ Len(claude_messages) = Len(kept)
            /\ \A i \in DOMAIN kept :
                 /\ i \in DOMAIN claude_messages
                 /\ kept[i].content.kind = "str" =>
                        claude_messages[i].content =
                            <<[type |-> "text", text |-> kept[i].content.text]>>
                 /\ kept[i].content.kind = "list" =>
                        Len(claude_messages[i].content) = Len(kept[i].content.parts)

\* _wait_for_transcription_job was entered: the job was started
PollLoopEntered ==
    /\ count.start_transcription_job = 1
    /\ "start_transcription_job" \notin faults

\* C31 (as stated): a call that entered the poll loop ends with the transcript,
\* the job-failed error, the status-query error or the timeout error, and with
\* nothing else.
C31_FourOutcomes ==
    (TranscribeEnded /\ PollLoopEntered)
        => result \in {"transcript", "job_failed", "status_error", "timeout"}

\* the ways a call that entered the poll loop ends
PollOutcomes ==
    {"transcript", "job_failed", "status_error", "timeout",
     "download_error", "unexpected_error", "cancelled"}

\* C31 (amended): a call that entered the poll loop ends with exactly one of
\* the transcript, the job-failed error, the error of a status query (a
\* ClientError or another exception), the transcript download error, the
\* timeout error or the caller's cancellation; a status query that follows
\* another comes after a non-terminal status and a sleep of at least the poll
\* interval, and no status query is issued once the deadline has elapsed.
C31_PollLoopOutcomes ==
    [][/\ (tpc' = "done" /\ PollLoopEntered') => result' \in PollOutcomes
       /\ tpc = "done" => (tpc' = "done" /\ result' = result)
       /\ count'.get_transcription_job > count.get_transcription_job
              => /\ now < MaxWaitTime
                 /\ count.get_transcription_job >= 1
                        => (slept >= PollInterval /\ status \in {"QUEUED", "IN_PROGRESS"})]_vars

\* the job was seen running, then COMPLETED, and the download of the
\* transcript failed
C31_Witness ==
    /\ TranscribeEnded
    /\ PollLoopEntered
    /\ count.get_transcription_job >= 2
    /\ status = "COMPLETED"
    /\ result = "download_error"

\* the roles of the messages of ms that are no system messages, in their order
RECURSIVE RolesWithoutSystem(_)
RolesWithoutSystem(ms) ==
    IF ms = <<>> THEN <<>>
    ELSE (IF Head(ms).role = "system" THEN <<>> ELSE <<Head(ms).role>>) \o
         RolesWithoutSystem(Tail(ms))

\* C32: the converted array holds no system message, and holds one message
\* for every non-system message of the input, in the input's order and with
\* the input's roles.
C32_SystemDroppedOthersInOrder ==
    ConvEnded =>
        /\ \A i \in DOMAIN claude_messages : claude_messages[i].role # "system"
        /\ [i \in DOMAIN claude_messages |-> claude_messages[i].role]
               = RolesWithoutSystem(history)

\* the system prompt was dropped, the assistant's message from the memory and
\* the user's message were converted in that order
C32_Witness ==
    /\ ConvEnded
    /\ Len(history) = 3
    /\ history[1].role = "system"
    /\ history[2].role = "assistant"
    /\ Len(claude_messages) = 2
    /\ claude_messages[1].role = "assistant"
    /\ claude_messages[2].role = "user"

\* C33: every provider a plain getter returns has completed initialize()
\* successfully and is available, also after a failed initialization and
\* while another call's initialization is in flight.
C33_PlainReturnsInitialized ==
    (PlainEnded /\ last.outcome = "returned")
        => /\ last.ret \in DOMAIN inst
           /\ inst[last.ret].inits >= 1
           /\ ~inst[last.ret].failed
           /\ IsAvailable(inst[last.ret])

\* the top candidates of the channels that returned candidates
TopCandidates ==
    (IF speech_clips # <<>> THEN {speech_clips[1]} ELSE {}) \cup
    (IF caption_clips # <<>> THEN {caption_clips[1]} ELSE {})

\* C34: when at least one channel returned a candidate, whatever its
\* similarity, the selected clip is the top candidate of a channel that
\* returned candidates.
C34_SelectsFromNonEmptyChannel ==
    (RankEnded /\ TopCandidates # {})
        => /\ rresult # "IndexError"
           /\ video_clip_info \in TopCandidates

\* C35: the provider a with-fallback getter returns in place of a primary
\* that failed is of another variant than that primary.
C35_SecondaryIsAlternateVariant ==
    (FallbackEnded /\ last.sec = "returned" /\ last.attempted # None)
        => inst[last.ret].variant # inst[last.attempted].variant

\* C36: over the lifetime of a factory the with-fallback getters construct at
\* most one secondary provider, and successive calls return the same instance.
C36_OneSecondary ==
    /\ Cardinality(Secondaries) <= 1
    /\ (FallbackEnded /\ last.outcome = "returned" /\ last.ret \in Secondaries)
           => Secondaries = {last.ret}

\* C37: with a selector that names no provider type, the plain getter raises
\* before it constructs anything, so that the cache slot stays empty, and the
\* with-fallback getter goes on to its fallback block with the primary counted
\* as failed.
C37_InvalidSelectorLeavesSlotEmpty ==
    [][~SelectorValid =>
         /\ slot' = None
         /\ Primaries' = {}
         /\ \A c \in Callers :
              (call[c].pc = "construct" /\ call'[c].pc # "construct")
                  => IF call[c].kind = "plain"
                     THEN /\ last'.kind = "plain"
                          /\ last'.outcome = "raised"
                          /\ last'.err = "selector"
                     ELSE /\ call'[c].pc = "secondary"
                          /\ call'[c].prim = "raised"]_vars

\* with a selector that names no provider type a with-fallback call returned
\* the secondary, and the slot is empty
C37_Witness ==
    /\ ~SelectorValid
    /\ FallbackEnded
    /\ last.prim = "raised"
    /\ last.sec = "returned"
    /\ slot = None

\* the three providers of a holder are all resolved, or none is
AllOrNothing(p) ==
    \/ p.transcription = "None" /\ p.vision = "None" /\ p.embeddings = "None"
    \/ p.transcription # "None" /\ p.vision # "None" /\ p.embeddings # "None"

C39_WrapperReturnsProviderResult ==
    (/\ WrapEnded
     /\ wfn \in PatchFns
     /\ ~PrepareRaises(wfn, winput)
     /\ wprovider # "None"
     /\ wcaught # "ProviderError")
        => /\ wcaught = "none"
           /\ wret.kind \in {"str", "list"}
           /\ ~wret.empty

====
